---- MODULE Spec2Model ----
(***************************************************************************)
(* krk-stayawake (src/app.js): the scheduling and cancellation engine.     *)
(*                                                                         *)
(* One action is one browser task (a click, an interval tick, an           *)
(* oscillator's ended event, the completion of a setSinkId request, the    *)
(* completion of a device enumeration) together with the microtasks it     *)
(* leaves behind: JavaScript runs a task and then every promise reaction   *)
(* it queued before the next task starts, so the continuation of an await  *)
(* on an already settled promise belongs to the task that reached it.      *)
(*                                                                         *)
(* Every handler is an operator from a state record to a state record;     *)
(* Cur is the record of the current state and Step(S) makes S the next     *)
(* state.                                                                  *)
(***************************************************************************)
EXTENDS Integers, Sequences, FiniteSets, TLC

VARIABLES
  button,           \* the handler on the play/pause button: "none", "start", "stop"
  className,        \* currentSoundStatus_.className
  abortController,  \* WakeSignalController.abortController_: [id, aborted]
  playJob,          \* playSoundPeriodicCallback_
  updateJob,        \* updateWaitingTextPeriodicCallback_
  intervals,        \* armed setInterval timers per job: [play, update]
  raised,           \* the errors the last task left unhandled, in order
  warned,           \* whether the last task logged the fallback warning
  selectedDevice,   \* AudioOutputDeviceSelectController.selectedDevice_
  deviceOptions,    \* ids of the enumerated devices listed in the drop-down
  audioCtx,         \* audioCtx_: [created, sinkId], and the AudioContexts made
  sinkQueue,        \* setSinkId requests in flight, oldest first: [sink, waiter]
  tones,            \* oscillators: <<owner, burst, index>> -> tone record
  pingCtl,          \* PingController.abortPreviousPing_ per instance: [id, aborted]
  gains,            \* connected gain stages of ping bursts: {<<owner, burst>>}
  passed,           \* history: the places in sinkQueue of the ping triggers
                    \* that a later trigger of their instance has overtaken
  clock,            \* Date.now()
  job,              \* a PeriodicCallback of its own, observed in time
  duration,         \* how long a call of fn_ (a wake tone) takes
  timers,           \* the setInterval timers observed in time: {[id, armedAt, at]}
  runs,             \* the times at which the calls of fn_ in flight return
  invoked,          \* whether the last task called job's fn_
  query,            \* a call of SinkIds.areSame: [a, b, asked, same]
  listing           \* a call of refreshDevices_: [devices, newDevices, done]

vars == <<button, className, abortController, playJob, updateJob, intervals,
          raised, warned, selectedDevice, deviceOptions, audioCtx, sinkQueue, tones,
          pingCtl, gains, passed, clock, job, duration, timers, runs, invoked,
          query, listing>>

engineVars == <<button, className, abortController, playJob, updateJob,
                intervals, warned, selectedDevice, deviceOptions, audioCtx, sinkQueue,
                tones, pingCtl, gains, passed>>

timedVars == <<job, duration, timers, runs, invoked>>

pureVars == <<query, listing>>

----------------------------------------------------------------------------
(* Bounds of the model. *)

MaxWakeTones == 1     \* wake oscillators that exist at a time
MaxDraining == 1      \* superseded ping bursts that still have an oscillator
MaxQueue == 1         \* setSinkId requests in flight
MaxTime == 6          \* the last instant of the timed specification
MaxPeriod == 2        \* the longest period of the timed PeriodicCallback
MaxDuration == 2      \* the longest duration of its callback
MaxDevices == 3       \* the longest list that enumerateDevices answers
MaxTones == 4         \* oscillators made in all when every one is kept
MaxWideTones == 2     \* wake oscillators that exist at a time, with room

(* Program constants. *)

WAKE_SIGNAL_INTERVAL_MSEC == 1080000
TIMER_UPDATE_INTERVAL_MSEC == 15000

----------------------------------------------------------------------------
(* SinkIds.  A sink id is '' , 'default', null, 'none', the structured     *)
(* marker {type: 'none'} or a device id; null is written "null" and the    *)
(* marker "objNone".                                                       *)

SINK_NONE == "none"
SINK_DEFAULT == ""
SINK_OBJ_NONE == "objNone"

isNone(s) == s = "none" \/ s = SINK_OBJ_NONE

(* A default that leaves out the unset sink id. *)
isDefaultOfStrings(s) == s = "" \/ s = "default"

isDefault(s) == s = "" \/ s = "default" \/ s = "null"

areSame(a, b) == (a = b) \/ (isNone(a) /\ isNone(b)) \/ (isDefault(a) /\ isDefault(b))

Devices == {"devA"}

STANDARD_DEVICES == {SINK_DEFAULT, SINK_NONE}

----------------------------------------------------------------------------
(* The state as a record. *)

Cur ==
  [button |-> button, className |-> className,
   abortController |-> abortController, playJob |-> playJob,
   updateJob |-> updateJob, intervals |-> intervals, raised |-> raised,
   warned |-> warned,
   selectedDevice |-> selectedDevice, deviceOptions |-> deviceOptions,
   audioCtx |-> audioCtx, sinkQueue |-> sinkQueue, tones |-> tones,
   pingCtl |-> pingCtl, gains |-> gains, clock |-> clock]

SetEngine(S) ==
  /\ button' = S.button
  /\ className' = S.className
  /\ abortController' = S.abortController
  /\ playJob' = S.playJob
  /\ updateJob' = S.updateJob
  /\ intervals' = S.intervals
  /\ raised' = S.raised
  /\ warned' = S.warned
  /\ selectedDevice' = S.selectedDevice
  /\ deviceOptions' = S.deviceOptions
  /\ audioCtx' = S.audioCtx
  /\ sinkQueue' = S.sinkQueue
  /\ tones' = S.tones
  /\ pingCtl' = S.pingCtl
  /\ gains' = S.gains
  /\ clock' = S.clock

(* The triggers overtaken after a task that ends in S: when the task       *)
(* completed the oldest request the others move up; otherwise every        *)
(* trigger that waits while its instance starts a burst is overtaken.      *)
Passed(S) ==
  IF Len(S.sinkQueue) < Len(sinkQueue)
  THEN {n - 1 : n \in passed \ {1}}
  ELSE passed \cup {n \in DOMAIN sinkQueue :
                      /\ sinkQueue[n].waiter \in DOMAIN pingCtl
                      /\ S.pingCtl[sinkQueue[n].waiter]
                           # pingCtl[sinkQueue[n].waiter]}

Set(S) == SetEngine(S) /\ passed' = Passed(S) /\ UNCHANGED <<timedVars, pureVars>>

WakeKeys(S) == {k \in DOMAIN S.tones : k[1] = "wake"}

(* The superseded ping bursts that still have an oscillator. *)
Draining(S) ==
  {<<k[1], k[2]>> : k \in {x \in DOMAIN S.tones \ WakeKeys(S) :
                              x[2] # S.pingCtl[x[1]].id}}

WithinBounds(S) ==
  /\ Cardinality(WakeKeys(S)) <= MaxWakeTones
  /\ Cardinality(Draining(S)) <= MaxDraining
  /\ Len(S.sinkQueue) <= MaxQueue

Step(S) == WithinBounds(S) /\ Set(S)

----------------------------------------------------------------------------
(* Oscillators and abort signals (startOscillator). *)

(* A resolve that overrides an earlier settlement. *)
ResolveAlways(o) == "ok"

(* The promise of startOscillator settles once: a later resolve or reject  *)
(* changes nothing.                                                        *)
Resolve(o) == IF o = "none" THEN "ok" ELSE o

Reject(o) == IF o = "none" THEN "aborted" ELSE o

(* The 'abort' listener of one tone: oscillator.stop(), reject(AbortedError). *)
AbortListener(t) ==
  [t EXCEPT !.st = IF @ = "playing" THEN "stopping" ELSE @,
            !.outcome = Reject(@)]

(* An abort that reaches the listeners of every owner. *)
AbortTonesOfAll(ts, owner, ctl) ==
  IF ctl.aborted THEN ts
  ELSE [k \in DOMAIN ts |-> AbortListener(ts[k])]

(* AbortController.abort() of an owner's controller ctl: the first call    *)
(* dispatches 'abort' to the listeners registered on its signal so far, a  *)
(* later call dispatches nothing.                                          *)
AbortTones(ts, owner, ctl) ==
  IF ctl.aborted THEN ts
  ELSE [k \in DOMAIN ts |->
          IF k[1] = owner /\ ts[k].sig = ctl.id THEN AbortListener(ts[k])
          ELSE ts[k]]

(* A started oscillator, connected, its listeners registered on signal sig.*)
(* addEventListener on a signal that is already aborted registers a        *)
(* listener that is never called.                                          *)
startOscillator(ts, key, sig) ==
  ts @@ (key :> [sig |-> sig, st |-> "playing", outcome |-> "none",
                 connected |-> TRUE])

(* A new object (an AbortController, an oscillator) is one that nothing   *)
(* refers to: it gets the least number not in use.                         *)
Fresh(used) == CHOOSE n \in 0..Cardinality(used) : n \notin used

NewController(ts, owner, ctl) ==
  [id |-> Fresh({ctl.id} \cup {ts[k].sig : k \in {x \in DOMAIN ts : x[1] = owner}}),
   aborted |-> FALSE]

(* An onended that disconnects and does not resolve. *)
OnEndedSilent(t) == [t EXCEPT !.st = "ended", !.connected = FALSE]

(* oscillator.onended: disconnect, resolve. *)
OnEnded(t) ==
  [t EXCEPT !.st = "ended", !.connected = FALSE, !.outcome = Resolve(@)]

Unsettled(S, owner) ==
  {k \in DOMAIN S.tones : k[1] = owner /\ S.tones[k].outcome = "none"}

----------------------------------------------------------------------------
(* AudioOutputDeviceSelectController. *)

(* A test of the sink by identity instead of areSame. *)
NeedsSinkUpdateByIdentity(S) ==
  S.audioCtx.created /\ S.selectedDevice # S.audioCtx.sinkId

(* updateSinkIfContextAvailable_, lines 374-375. *)
NeedsSinkUpdate(S) ==
  S.audioCtx.created /\ ~areSame(S.selectedDevice, S.audioCtx.sinkId)

SinkArg(sel) == IF isNone(sel) THEN SINK_OBJ_NONE ELSE sel

(* The returned promise is that of setSinkId; waiter is who awaits it.     *)
updateSinkIfContextAvailable_(S, waiter) ==
  IF NeedsSinkUpdate(S)
  THEN [S EXCEPT !.sinkQueue =
          Append(@, [sink |-> SinkArg(S.selectedDevice), waiter |-> waiter])]
  ELSE S

(* A context made by every call. *)
CreateCtxAlways(S) ==
  [S EXCEPT !.audioCtx = [created |-> TRUE, sinkId |-> SINK_DEFAULT,
                          instances |-> @.instances + 1]]

(* getOrCreateAudioContext, lines 366-368. *)
CreateCtx(S) ==
  IF S.audioCtx.created THEN S
  ELSE [S EXCEPT !.audioCtx = [created |-> TRUE, sinkId |-> SINK_DEFAULT,
                               instances |-> @.instances + 1]]

getOrCreateAudioContext(S, waiter) ==
  updateSinkIfContextAvailable_(CreateCtx(S), waiter)

(* The caller of getOrCreateAudioContext is suspended on a setSinkId.      *)
Suspended(S0, S1) == Len(S1.sinkQueue) > Len(S0.sinkQueue)

(* A selection that is only stored. *)
updateSelectedDevice_Stored(S, newSelection) ==
  [S EXCEPT !.selectedDevice = newSelection]

updateSelectedDevice_(S, newSelection) ==
  IF newSelection = S.selectedDevice THEN S
  ELSE updateSinkIfContextAvailable_(
         [S EXCEPT !.selectedDevice = newSelection], "none")

(* A drop-down that keeps its value when the option is gone. *)
SelectorValueKept(sel, newDevices) == sel

(* The drop-down's value after it is rebuilt: the selected device when it  *)
(* is listed, the first option otherwise.                                  *)
SelectorValue(sel, newDevices) ==
  IF sel \in STANDARD_DEVICES \cup newDevices THEN sel ELSE SINK_DEFAULT

updateHtml_(S, newDevices) ==
  LET S1 == [S EXCEPT !.deviceOptions = newDevices] IN
  IF SelectorValue(S.selectedDevice, newDevices) # S.selectedDevice
  THEN updateSinkIfContextAvailable_(
         [S1 EXCEPT !.selectedDevice = SINK_DEFAULT, !.warned = TRUE], "none")
  ELSE S1

----------------------------------------------------------------------------
(* PeriodicCallback: [callbackId, isCurrentlyRunning, nextUnixMsec,        *)
(* delayMsec]; callbackId is 0 for null.                                   *)

NewJob(delay) ==
  [callbackId |-> 0, isCurrentlyRunning |-> FALSE, nextUnixMsec |-> 0,
   delayMsec |-> delay]

OVERLAP == "OverlappingInvocationError"

(* A callFn_ that leaves nextUnixMsec as it is. *)
SetNextKept(j, now) == j

(* callFn_, line 100. *)
SetNext(j, now) == [j EXCEPT !.nextUnixMsec = now + j.delayMsec]

(* callFn_ without its guard. *)
OverlappingUnguarded(j) == FALSE

(* callFn_, line 103: the overlap guard. *)
Overlapping(j) == j.isCurrentlyRunning

(* A callFn_ that does not mark the job busy. *)
EnterIdle(j) == j

(* callFn_, line 109. *)
Enter(j) == [j EXCEPT !.isCurrentlyRunning = TRUE]

(* callFn_ without its finally block. *)
FinallyKeepsBusy(j) == j

Finally(j) == [j EXCEPT !.isCurrentlyRunning = FALSE]

(* start() without its guard. *)
AlreadyStartedNever(j) == FALSE

(* start(), line 86. *)
AlreadyStarted(j) == j.callbackId # 0

(* start(), line 87: callbackId is the id setInterval returned. *)
Arm(j, id) == [j EXCEPT !.callbackId = id]

(* A stop() that also gives up the invocation in flight. *)
DisarmClearingBusy(j) ==
  [j EXCEPT !.nextUnixMsec = 0, !.callbackId = 0, !.isCurrentlyRunning = FALSE]

(* stop(). *)
Disarm(j) == [j EXCEPT !.nextUnixMsec = 0, !.callbackId = 0]

clearInterval(n, id) == IF id # 0 /\ n > 0 THEN n - 1 ELSE n

----------------------------------------------------------------------------
(* WakeSignalController. *)

(* Writes the progress bar and data-waiting-text only: no state of the    *)
(* engine.                                                                 *)
updateWaitTimerText_(S) == S

notifyEnteringWaitingState(S) ==
  updateWaitTimerText_([S EXCEPT !.className = "waiting"])

(* playSoundOnce_ from line 175 on: the destination is there. *)
PlayTone(S) ==
  [S EXCEPT !.tones =
     startOscillator(@, <<"wake", Fresh({k[2] : k \in WakeKeys(S)}), 1>>,
                     S.abortController.id)]

playSoundOnce_(S) ==
  LET S1 == getOrCreateAudioContext(S, "wake") IN
  IF Suspended(S, S1) THEN S1 ELSE PlayTone(S1)

playSoundCallbackFn_(S) == playSoundOnce_([S EXCEPT !.className = "playing"])

(* An error that no handler catches. *)
Throw(S, err) == [S EXCEPT !.raised = Append(@, err)]

(* callFn_ of playSoundPeriodicCallback_ up to its first suspension. *)
PlayCallFn(S) ==
  LET S1 == [S EXCEPT !.playJob = SetNext(@, S.clock)] IN
  IF Overlapping(S1.playJob)
  THEN Throw(S1, "OverlappingInvocationError")
  ELSE playSoundCallbackFn_([S1 EXCEPT !.playJob = Enter(@)])

(* callFn_ of updateWaitingTextPeriodicCallback_: its fn_ is synchronous,  *)
(* the finally block runs in the same task.                                *)
UpdateCallFn(S) ==
  LET S1 == [S EXCEPT !.updateJob = SetNext(@, S.clock)] IN
  IF Overlapping(S1.updateJob)
  THEN Throw(S1, "OverlappingInvocationError")
  ELSE LET S2 == updateWaitTimerText_([S1 EXCEPT !.updateJob = Enter(@)])
       IN [S2 EXCEPT !.updateJob = Finally(@)]

PlayJobStart(S) ==
  IF AlreadyStarted(S.playJob) THEN S
  ELSE PlayCallFn([S EXCEPT !.playJob = Arm(@, 1), !.intervals.play = @ + 1])

UpdateJobStart(S) ==
  IF AlreadyStarted(S.updateJob) THEN S
  ELSE UpdateCallFn([S EXCEPT !.updateJob = Arm(@, 1), !.intervals.update = @ + 1])

PlayJobStop(S) ==
  [S EXCEPT !.intervals.play = clearInterval(@, S.playJob.callbackId),
            !.playJob = Disarm(@)]

UpdateJobStop(S) ==
  [S EXCEPT !.intervals.update = clearInterval(@, S.updateJob.callbackId),
            !.updateJob = Disarm(@)]

(* this.abortController_.abort() *)
WakeAbort(S) ==
  [S EXCEPT !.tones = AbortTones(@, "wake", S.abortController),
            !.abortController.aborted = TRUE]

(* A start() that the error of the first callFn_ leaves half done, as if   *)
(* callFn_ threw in the call.                                              *)
startPeriodicAudio_Thrown(S) ==
  IF S.button = "none" THEN S
  ELSE LET S1 == WakeAbort(S)
           S2 == [S1 EXCEPT !.abortController =
                    NewController(S1.tones, "wake", @)]
           S3 == PlayJobStart(S2)
       IN IF S3.raised # S2.raised THEN S3
          ELSE [UpdateJobStart(S3) EXCEPT !.button = "stop"]

(* startPeriodicAudio_: callFn_ is async, so its errors reject its promise *)
(* and line 231 is reached whatever the first call does.                   *)
startPeriodicAudio_(S) ==
  IF S.button = "none" THEN S
  ELSE LET S1 == WakeAbort(S)
           S2 == [S1 EXCEPT !.abortController =
                    NewController(S1.tones, "wake", @)]
           S3 == UpdateJobStart(PlayJobStart(S2))
       IN [S3 EXCEPT !.button = "stop"]

(* A stop() that mints a token as start() does. *)
stopPeriodicAudio_Minting(S) ==
  LET S1 == WakeAbort(S)
      S2 == [S1 EXCEPT !.className = "standby", !.button = "start",
                       !.abortController = NewController(S1.tones, "wake", @)]
  IN UpdateJobStop(PlayJobStop(S2))

stopPeriodicAudio_(S) ==
  LET S1 == WakeAbort(S)
      S2 == [S1 EXCEPT !.className = "standby", !.button = "start"]
  IN UpdateJobStop(PlayJobStop(S2))

(* A callFn_ without its finally block. *)
callFnFinallySkipped(S) == S

(* callFn_, lines 112-115, once the await of fn_ has returned or thrown.   *)
callFnFinally(S) == [S EXCEPT !.playJob = Finally(@)]

(* A playSoundCallbackFn_ that rethrows every error. *)
WakeResumedRethrowing(S, how) ==
  callFnFinally(IF how = "ok" THEN notifyEnteringWaitingState(S)
                ELSE Throw(S, how))

(* playSoundCallbackFn_ after its await: line 168 when the tone resolved,  *)
(* line 165 when it was aborted, line 166 for any other error.             *)
WakeResumed(S, how) ==
  callFnFinally(CASE how = "ok" -> notifyEnteringWaitingState(S)
                  [] how = "aborted" -> S
                  [] OTHER -> Throw(S, how))

----------------------------------------------------------------------------
(* The microtasks a task leaves behind: the reactions to the promises it   *)
(* settled.  S0 is the state the task began in.                            *)

Settled(S0, S, owner, how) ==
  {k \in Unsettled(S0, owner) : S.tones[k].outcome = how}

(* A burst taken as over when its first oscillator settles. *)
BurstSettledFirst(S, g) ==
  \E k \in DOMAIN S.tones :
    k[1] = g[1] /\ k[2] = g[2] /\ S.tones[k].outcome # "none"

BurstSettled(S, g) ==
  \A k \in DOMAIN S.tones :
    (k[1] = g[1] /\ k[2] = g[2]) => S.tones[k].outcome # "none"

(* playPingSound, lines 302-303: allSettled, then gainNode.disconnect().   *)
ReleaseGains(S) == [S EXCEPT !.gains = {g \in @ : ~BurstSettled(S, g)}]

Drain(S0, S) ==
  LET S1 == IF Settled(S0, S, "wake", "aborted") # {}
            THEN WakeResumed(S, "aborted") ELSE S
      S2 == IF Settled(S0, S, "wake", "ok") # {}
            THEN WakeResumed(S1, "ok") ELSE S1
  IN ReleaseGains(S2)

(* An oscillator that no event can reach any more is dropped: it has      *)
(* ended, and the controller of its signal was aborted or replaced.        *)
Controller(S, owner) ==
  IF owner = "wake" THEN S.abortController ELSE S.pingCtl[owner]

Garbage(S, k) ==
  /\ S.tones[k].st = "ended"
  /\ \/ Controller(S, k[1]).id # S.tones[k].sig
     \/ Controller(S, k[1]).aborted

Collect(S) ==
  [S EXCEPT !.tones =
     [k \in {x \in DOMAIN S.tones : ~Garbage(S, x)} |-> S.tones[k]]]

(* A task: it begins with no error and no warning reported. *)
Begin == [Cur EXCEPT !.raised = <<>>, !.warned = FALSE]

Task(S) == Step(Collect(Drain(Cur, S)))

----------------------------------------------------------------------------
(* PingController. *)

PingIds == {"center", "left"}

(* freqs_.length of pingCenterController (CHORD_A5) and of the panned      *)
(* controllers (CHORD_A_MIN, CHORD_A_MAJ).                                 *)
ChordSize(i) == IF i = "center" THEN 2 ELSE 3

(* this.abortPreviousPing_.abort() *)
PingAbort(S, i) ==
  [S EXCEPT !.tones = AbortTones(@, i, S.pingCtl[i]),
            !.pingCtl[i].aborted = TRUE]

RECURSIVE StartChord(_, _, _, _)
StartChord(ts, i, burst, n) ==
  IF n = 0 THEN ts
  ELSE startOscillator(StartChord(ts, i, burst, n - 1), <<i, burst, n>>, burst)

(* playPingSound from line 284 on: the destination is there. *)
PingResumed(S, i) ==
  LET S1 == PingAbort(S, i)
      ctl == NewController(S1.tones, i, S1.pingCtl[i])
  IN [S1 EXCEPT !.pingCtl[i] = ctl,
                !.gains = @ \cup {<<i, ctl.id>>},
                !.tones = StartChord(@, i, ctl.id, ChordSize(i))]

playPingSound(S, i) ==
  LET S1 == getOrCreateAudioContext(S, i) IN
  IF Suspended(S, S1) THEN S1 ELSE PingResumed(S1, i)

----------------------------------------------------------------------------
(* The audio backend completes the oldest setSinkId request: on success    *)
(* the context's sinkId becomes the requested sink and the promise         *)
(* resolves, on failure the promise rejects and sinkId stays.              *)

SinkDone(S, ok) ==
  LET head == Head(S.sinkQueue)
      S1 == [S EXCEPT !.sinkQueue = Tail(@),
                      !.audioCtx.sinkId = IF ok THEN head.sink ELSE @]
  IN CASE head.waiter = "none" -> IF ok THEN S1 ELSE Throw(S1, "Error")
       [] head.waiter = "wake" ->
            IF ok THEN PlayTone(S1) ELSE WakeResumed(S1, "Error")
       [] OTHER ->
            IF ok THEN PingResumed(S1, head.waiter) ELSE Throw(S1, "Error")

----------------------------------------------------------------------------
(* Tasks. *)

InitEngine ==
  /\ button = "none"
  /\ className = "standby"
  /\ abortController = [id |-> 0, aborted |-> FALSE]
  /\ playJob = NewJob(WAKE_SIGNAL_INTERVAL_MSEC)
  /\ updateJob = NewJob(TIMER_UPDATE_INTERVAL_MSEC)
  /\ intervals = [play |-> 0, update |-> 0]
  /\ raised = <<>>
  /\ warned = FALSE
  /\ selectedDevice = SINK_DEFAULT
  /\ deviceOptions = {}
  /\ audioCtx = [created |-> FALSE, sinkId |-> SINK_DEFAULT, instances |-> 0]
  /\ sinkQueue = <<>>
  /\ tones = [k \in {} |-> 0]
  /\ pingCtl = [i \in PingIds |-> [id |-> 0, aborted |-> FALSE]]
  /\ gains = {}
  /\ passed = {}
  /\ clock = 0

(* No call of SinkIds.areSame is observed. *)
NoQuery == query = [a |-> "", b |-> "", asked |-> FALSE, same |-> FALSE]

(* No call of refreshDevices_ is observed. *)
NoListing == listing = [devices |-> <<>>, newDevices |-> <<>>, done |-> FALSE]

(* The PeriodicCallback observed in time is not constructed. *)
Init ==
  /\ InitEngine
  /\ job = NewJob(1)
  /\ duration = 0
  /\ timers = {}
  /\ runs = {}
  /\ invoked = FALSE
  /\ NoQuery
  /\ NoListing

Mounted == button # "none"

(* onBodyLoad: the controllers are mounted. *)
OnBodyLoad ==
  /\ ~Mounted
  /\ Task(updateHtml_([Begin EXCEPT !.button = "start"], {}))

(* A click on the play/pause button runs the handler it holds. *)
ClickPlayPause ==
  /\ Mounted
  /\ Task(IF button = "start" THEN startPeriodicAudio_(Begin)
          ELSE stopPeriodicAudio_(Begin))

(* The operations called directly. *)
CallStart == Task(startPeriodicAudio_(Begin))

CallStop == Mounted /\ Task(stopPeriodicAudio_(Begin))

(* A tick of an armed interval timer. *)
TickPlay == intervals.play > 0 /\ Task(PlayCallFn(Begin))

TickUpdate == intervals.update > 0 /\ Task(UpdateCallFn(Begin))

(* An oscillator's ended event: at its stop time, or after stop(). *)
ToneEnded ==
  \E k \in DOMAIN tones :
    /\ tones[k].st # "ended"
    /\ Task([Begin EXCEPT !.tones[k] = OnEnded(@)])

SetSinkIdResolved == sinkQueue # <<>> /\ Task(SinkDone(Begin, TRUE))

SetSinkIdRejected == sinkQueue # <<>> /\ Task(SinkDone(Begin, FALSE))

(* The user picks another option of the drop-down. *)
SelectDevice ==
  \E d \in STANDARD_DEVICES \cup deviceOptions :
    /\ Mounted
    /\ d # selectedDevice
    /\ Task(updateSelectedDevice_(Begin, d))

(* refreshDevices_ reads nothing of the controller before updateHtml_: the *)
(* task is the one in which enumerateDevices answers a click made earlier. *)
RefreshDevices ==
  \E devs \in SUBSET Devices : Mounted /\ Task(updateHtml_(Begin, devs))

ClickPing ==
  \E i \in PingIds : Mounted /\ Task(playPingSound(Begin, i))

ClickPingCenter == Mounted /\ Task(playPingSound(Begin, "center"))

Binding ==
  \/ SetSinkIdResolved
  \/ SetSinkIdRejected
  \/ SelectDevice
  \/ RefreshDevices

Next ==
  \/ OnBodyLoad
  \/ ClickPlayPause
  \/ TickPlay
  \/ TickUpdate
  \/ ToneEnded
  \/ Binding

Spec == Init /\ [][Next]_vars

NextApi ==
  \/ OnBodyLoad
  \/ CallStart
  \/ CallStop
  \/ TickPlay
  \/ TickUpdate
  \/ ToneEnded
  \/ Binding

SpecApi == Init /\ [][NextApi]_vars

(* The backend answers every setSinkId request and delivers the ended      *)
(* event of every oscillator that was started: weak fairness of both,      *)
(* WF_vars(A) written as []<>~ENABLED <<A>>_vars \/ []<><<A>>_vars with    *)
(* ENABLED spelled out.  A request in flight can always be answered, and   *)
(* an oscillator that has not ended can always end.                        *)
BackendAnswers == SetSinkIdResolved \/ SetSinkIdRejected

AnswerEnabled == sinkQueue # <<>>

EndEnabled == \E k \in DOMAIN tones : tones[k].st # "ended"

(* start() and stop() in any order, the ticks of the wake job, the ended   *)
(* events, the selections and the answers of the backend.                  *)
NextLive ==
  \/ OnBodyLoad
  \/ CallStart
  \/ CallStop
  \/ TickPlay
  \/ ToneEnded
  \/ SetSinkIdResolved
  \/ SetSinkIdRejected
  \/ SelectDevice

SpecLive ==
  /\ Init
  /\ [][NextLive]_vars
  /\ ([]<>~AnswerEnabled \/ []<><<BackendAnswers>>_vars)
  /\ ([]<>~EndEnabled \/ []<><<ToneEnded>>_vars)

NextPing ==
  \/ OnBodyLoad
  \/ ClickPing
  \/ ToneEnded

SpecPing == Init /\ [][NextPing]_vars

NextPingRoute ==
  \/ OnBodyLoad
  \/ ClickPingCenter
  \/ ToneEnded
  \/ Binding

SpecPingRoute == Init /\ [][NextPingRoute]_vars

----------------------------------------------------------------------------
(* The wake engine with start() and stop() called directly and room for    *)
(* more wake oscillators at a time: the oscillators of earlier starts that *)
(* were stopped and have not ended yet, next to the one that plays.  The   *)
(* selection changes among the standard devices.                           *)

WideTask(S) ==
  LET R == Collect(Drain(Cur, S))
  IN /\ Cardinality(WakeKeys(R)) <= MaxWideTones
     /\ Len(R.sinkQueue) <= MaxQueue
     /\ Set(R)

WideMount ==
  /\ ~Mounted
  /\ WideTask(updateHtml_([Begin EXCEPT !.button = "start"], {}))

WideStart == WideTask(startPeriodicAudio_(Begin))

WideStop == Mounted /\ WideTask(stopPeriodicAudio_(Begin))

WideTick == intervals.play > 0 /\ WideTask(PlayCallFn(Begin))

WideToneEnded ==
  \E k \in DOMAIN tones :
    /\ tones[k].st # "ended"
    /\ WideTask([Begin EXCEPT !.tones[k] = OnEnded(@)])

WideSinkResolved == sinkQueue # <<>> /\ WideTask(SinkDone(Begin, TRUE))

WideSinkRejected == sinkQueue # <<>> /\ WideTask(SinkDone(Begin, FALSE))

WideSelect ==
  \E d \in STANDARD_DEVICES \cup deviceOptions :
    /\ Mounted
    /\ d # selectedDevice
    /\ WideTask(updateSelectedDevice_(Begin, d))

NextWide ==
  \/ WideMount
  \/ WideStart
  \/ WideStop
  \/ WideTick
  \/ WideToneEnded
  \/ WideSinkResolved
  \/ WideSinkRejected
  \/ WideSelect

SpecWide == Init /\ [][NextWide]_vars

----------------------------------------------------------------------------
(* A PeriodicCallback in time.  Its fn_ takes duration units of time, its  *)
(* period is job.delayMsec; a timer that is due ticks, and a call that is  *)
(* due returns, before time passes.  A call of no duration is a fn_ that   *)
(* returns no promise (updateWaitTimerText_): callFn_ ends in the task.    *)

InitTimed ==
  /\ InitEngine
  /\ \E P \in 1..MaxPeriod : job = NewJob(P)
  /\ duration \in 0..MaxDuration
  /\ timers = {}
  /\ runs = {}
  /\ invoked = FALSE
  /\ NoQuery
  /\ NoListing

FreshTimer == CHOOSE n \in 1..(Cardinality(timers) + 1) :
                \A t \in timers : t.id # n

(* callFn_ of job, lines 99-116, up to its await. *)
callFn_(j) ==
  LET j1 == SetNext(j, clock)
  IN IF Overlapping(j1)
     THEN /\ job' = j1
          /\ raised' = <<OVERLAP>>
          /\ invoked' = FALSE
          /\ runs' = runs
     ELSE /\ job' = IF duration = 0 THEN Finally(Enter(j1)) ELSE Enter(j1)
          /\ raised' = <<>>
          /\ invoked' = TRUE
          /\ runs' = IF duration = 0 THEN runs ELSE runs \cup {clock + duration}

(* A start() that arms the timer and leaves the first call to it. *)
SchedStartLazy ==
  /\ UNCHANGED <<engineVars, pureVars, clock, duration, runs>>
  /\ raised' = <<>>
  /\ invoked' = FALSE
  /\ IF AlreadyStarted(job)
     THEN UNCHANGED <<job, timers>>
     ELSE /\ timers' = timers \cup {[id |-> FreshTimer, armedAt |-> clock,
                                     at |-> clock + job.delayMsec]}
          /\ job' = Arm(job, FreshTimer)

(* start(), lines 85-89. *)
SchedStart ==
  /\ UNCHANGED <<engineVars, pureVars, clock, duration>>
  /\ IF AlreadyStarted(job)
     THEN /\ raised' = <<>>
          /\ invoked' = FALSE
          /\ UNCHANGED <<job, timers, runs>>
     ELSE /\ timers' = timers \cup {[id |-> FreshTimer, armedAt |-> clock,
                                     at |-> clock + job.delayMsec]}
          /\ callFn_(Arm(job, FreshTimer))

(* stop(), lines 93-97. *)
SchedStop ==
  /\ UNCHANGED <<engineVars, pureVars, clock, duration, runs>>
  /\ timers' = {t \in timers : t.id # job.callbackId}
  /\ job' = Disarm(job)
  /\ raised' = <<>>
  /\ invoked' = FALSE

(* A tick of a timer of job. *)
SchedTick ==
  \E t \in timers :
    /\ t.at = clock
    /\ UNCHANGED <<engineVars, pureVars, clock, duration>>
    /\ timers' = (timers \ {t}) \cup {[t EXCEPT !.at = clock + job.delayMsec]}
    /\ callFn_(job)

(* The promise of fn_ settles: callFn_, lines 112-115. *)
SchedDone ==
  /\ clock \in runs
  /\ UNCHANGED <<engineVars, pureVars, clock, duration, timers>>
  /\ runs' = runs \ {clock}
  /\ job' = Finally(job)
  /\ raised' = <<>>
  /\ invoked' = FALSE

Due == clock \in runs \/ \E t \in timers : t.at = clock

Advance ==
  /\ clock < MaxTime
  /\ ~Due
  /\ clock' = clock + 1
  /\ raised' = <<>>
  /\ invoked' = FALSE
  /\ UNCHANGED <<engineVars, pureVars, job, duration, timers, runs>>

NextTimed ==
  \/ SchedStart
  \/ SchedStop
  \/ SchedTick
  \/ SchedDone
  \/ Advance

SpecTimed == InitTimed /\ [][NextTimed]_vars

----------------------------------------------------------------------------
(* The wake engine in time, with the default sink: the destination is      *)
(* there at once.  The period of playSoundPeriodicCallback_ is             *)
(* playJob.delayMsec and a wake tone lasts duration; timers holds the      *)
(* interval timer of the job and runs the stop time of the oscillator that *)
(* is playing.  The ended event of an oscillator is due at its stop time,  *)
(* or at once after stop(); what is due happens before time passes.  The   *)
(* ticks of updateWaitingTextPeriodicCallback_ write the progress text     *)
(* only and are left out.                                                  *)

InitWake ==
  /\ button = "none"
  /\ className = "standby"
  /\ abortController = [id |-> 0, aborted |-> FALSE]
  /\ \E P \in 1..MaxPeriod : playJob = NewJob(P)
  /\ updateJob = NewJob(TIMER_UPDATE_INTERVAL_MSEC)
  /\ intervals = [play |-> 0, update |-> 0]
  /\ raised = <<>>
  /\ warned = FALSE
  /\ selectedDevice = SINK_DEFAULT
  /\ deviceOptions = {}
  /\ audioCtx = [created |-> FALSE, sinkId |-> SINK_DEFAULT, instances |-> 0]
  /\ sinkQueue = <<>>
  /\ tones = [k \in {} |-> 0]
  /\ pingCtl = [i \in PingIds |-> [id |-> 0, aborted |-> FALSE]]
  /\ gains = {}
  /\ passed = {}
  /\ clock = 0
  /\ job = NewJob(1)
  /\ duration \in 1..MaxDuration
  /\ timers = {}
  /\ runs = {}
  /\ invoked = FALSE
  /\ NoQuery
  /\ NoListing

Playing(ts) == {k \in DOMAIN ts : ts[k].st = "playing"}

(* The timer of the job after a task that ends in S; ticked is the timer   *)
(* whose tick the task is, or {}.                                          *)
WakeTimers(S, ticked) ==
  IF S.intervals.play = 0 THEN {}
  ELSE IF intervals.play = 0
       THEN {[id |-> S.playJob.callbackId, armedAt |-> clock,
              at |-> clock + S.playJob.delayMsec]}
       ELSE (timers \ ticked)
              \cup {[t EXCEPT !.at = @ + S.playJob.delayMsec] : t \in ticked}

(* oscillator.stop(stopTime), line 41, and oscillator.stop(), line 58. *)
StopTimes(S) ==
  (IF Playing(tones) \cap Playing(S.tones) # {} THEN runs ELSE {})
    \cup (IF Playing(S.tones) \ Playing(tones) # {}
          THEN {clock + duration} ELSE {})

(* An oscillator that has ended is stopped and its promise is settled: an  *)
(* abort that still reaches its listener changes nothing.  Over many       *)
(* periods every one of them is dropped when it ends.                      *)
Sweep(S) ==
  [S EXCEPT !.tones =
     [k \in {x \in DOMAIN S.tones : S.tones[x].st # "ended"} |-> S.tones[k]]]

TimedTask(S, ticked) ==
  LET R == Sweep(Drain(Cur, S))
  IN /\ WithinBounds(R)
     /\ SetEngine(R)
     /\ passed' = Passed(R)
     /\ timers' = WakeTimers(R, ticked)
     /\ runs' = StopTimes(R)
     /\ UNCHANGED <<job, duration, invoked, pureVars>>

WakeMount ==
  /\ ~Mounted
  /\ TimedTask(updateHtml_([Begin EXCEPT !.button = "start"], {}), {})

WakeClick ==
  /\ Mounted
  /\ TimedTask(IF button = "start" THEN startPeriodicAudio_(Begin)
                ELSE stopPeriodicAudio_(Begin), {})

WakeTick ==
  \E t \in timers :
    /\ t.at = clock
    /\ TimedTask(PlayCallFn(Begin), {t})

WakeToneEnd ==
  \E k \in DOMAIN tones :
    /\ \/ tones[k].st = "stopping"
       \/ tones[k].st = "playing" /\ clock \in runs
    /\ TimedTask([Begin EXCEPT !.tones[k] = OnEnded(@)], {})

WakeDue ==
  \/ clock \in runs
  \/ \E t \in timers : t.at = clock
  \/ \E k \in DOMAIN tones : tones[k].st = "stopping"

WakeAdvance ==
  /\ clock < MaxTime
  /\ ~WakeDue
  /\ clock' = clock + 1
  /\ raised' = <<>>
  /\ UNCHANGED <<engineVars, timedVars, pureVars>>

NextWake ==
  \/ WakeMount
  \/ WakeClick
  \/ WakeTick
  \/ WakeToneEnd
  \/ WakeAdvance

SpecWake == InitWake /\ [][NextWake]_vars

----------------------------------------------------------------------------
(* SinkIds.areSame applied to a pair of sink ids.                          *)

SinkValues ==
  {"", "default", "null", "none", SINK_OBJ_NONE, "devA", "devB", "devC"}

InitSame ==
  /\ InitEngine
  /\ job = NewJob(1)
  /\ duration = 0
  /\ timers = {}
  /\ runs = {}
  /\ invoked = FALSE
  /\ \E x, y \in SinkValues :
       query = [a |-> x, b |-> y, asked |-> FALSE, same |-> FALSE]
  /\ NoListing

AskSame ==
  /\ ~query.asked
  /\ query' = [query EXCEPT !.asked = TRUE, !.same = areSame(query.a, query.b)]
  /\ UNCHANGED <<engineVars, timedVars, clock, raised, listing>>

SpecSame == InitSame /\ [][AskSame]_vars

----------------------------------------------------------------------------
(* Oscillators and their tokens with every oscillator kept to the end: the *)
(* wake token is cancelled (stopPeriodicAudio_, line 238), a wake tone is  *)
(* started on the current token (playSoundOnce_), the center ping cancels  *)
(* its burst and starts another (playPingSound from line 284 on), and an   *)
(* oscillator ends.                                                        *)

(* A task of which no oscillator is dropped. *)
Keep(S) == Set(Drain(Cur, S))

ToneWake == Cardinality(DOMAIN tones) + 1 <= MaxTones /\ Keep(PlayTone(Begin))

TokenAbort == ~abortController.aborted /\ Keep(WakeAbort(Begin))

TonePing ==
  /\ Cardinality(DOMAIN tones) + ChordSize("center") <= MaxTones
  /\ Keep(PingResumed(Begin, "center"))

ToneEnd ==
  \E k \in DOMAIN tones :
    /\ tones[k].st # "ended"
    /\ Keep([Begin EXCEPT !.tones[k] = OnEnded(@)])

NextTone ==
  \/ ToneWake
  \/ TokenAbort
  \/ TonePing
  \/ ToneEnd

SpecTone == Init /\ [][NextTone]_vars

----------------------------------------------------------------------------
(* refreshDevices_ applied to a list that enumerateDevices answered.       *)

(* The devices the browser can enumerate: one of each (kind, deviceId).    *)
DevicePool ==
  {[kind |-> "audioinput", deviceId |-> "devA", label |-> "Microphone"],
   [kind |-> "audiooutput", deviceId |-> "default", label |-> "Speakers"],
   [kind |-> "audiooutput", deviceId |-> "devA", label |-> "Speakers"],
   [kind |-> "audiooutput", deviceId |-> "devB", label |-> "Headphones"],
   [kind |-> "audiooutput", deviceId |-> "devC", label |-> ""]}

OBJECT_STRING == "[object Object]"

(* The place of a string in the collation of localeCompare: the empty      *)
(* string first, punctuation before letters.                               *)
Collation(s) ==
  CASE s = "" -> 0
    [] s = OBJECT_STRING -> 1
    [] s = "Headphones" -> 2
    [] s = "Microphone" -> 3
    [] s = "Speakers" -> 4

(* x.localeCompare(y): y is converted to a string first; negative, zero or *)
(* positive.                                                               *)
localeCompare(x, y) ==
  IF Collation(x) < Collation(y) THEN 0 - 1
  ELSE IF Collation(x) > Collation(y) THEN 1 ELSE 0

(* String(b) of an {id, label} object. *)
StringOf(obj) == OBJECT_STRING

(* Line 392: (a, b) => a.label.localeCompare(b). *)
compareFn(a, b) == localeCompare(a.label, StringOf(b))

(* A consistent comparator for the elements of s, as Array.prototype.sort  *)
(* requires for a defined order.                                           *)
Consistent(s) ==
  \A i, j, k \in DOMAIN s :
    /\ compareFn(s[i], s[i]) = 0
    /\ (compareFn(s[i], s[j]) < 0) <=> (compareFn(s[j], s[i]) > 0)
    /\ (compareFn(s[i], s[j]) = 0) <=> (compareFn(s[j], s[i]) = 0)
    /\ (compareFn(s[i], s[j]) <= 0 /\ compareFn(s[j], s[k]) <= 0)
         => compareFn(s[i], s[k]) <= 0

Orders(n) == {p \in [1..n -> 1..n] : \A i, j \in 1..n : p[i] = p[j] => i = j}

(* Array.prototype.sort: with a consistent comparator the stable ascending *)
(* order; otherwise the order is implementation-defined, any permutation.  *)
Sorted(s) ==
  LET n == Len(s)
      stable == {p \in Orders(n) :
                   \A i, j \in 1..n :
                     i < j => \/ compareFn(s[p[i]], s[p[j]]) < 0
                              \/ /\ compareFn(s[p[i]], s[p[j]]) = 0
                                 /\ p[i] < p[j]}
  IN {[i \in 1..n |-> s[p[i]]] :
        p \in IF Consistent(s) THEN stable ELSE Orders(n)}

IsOutput(device) == device.kind = "audiooutput" /\ ~isDefault(device.deviceId)

(* refreshDevices_, lines 386-392: the lists that updateHtml_ can be given. *)
NewDevices(devices) ==
  LET outputs == SelectSeq(devices, IsOutput)
  IN Sorted([i \in DOMAIN outputs |->
               [id |-> outputs[i].deviceId, label |-> outputs[i].label]])

Enumerations ==
  {s \in UNION {[1..n -> DevicePool] : n \in 0..MaxDevices} :
     \A i, j \in DOMAIN s : s[i] = s[j] => i = j}

InitList ==
  /\ InitEngine
  /\ job = NewJob(1)
  /\ duration = 0
  /\ timers = {}
  /\ runs = {}
  /\ invoked = FALSE
  /\ NoQuery
  /\ \E s \in Enumerations :
       listing = [devices |-> s, newDevices |-> <<>>, done |-> FALSE]

ListDevices ==
  /\ ~listing.done
  /\ \E r \in NewDevices(listing.devices) :
       listing' = [listing EXCEPT !.newDevices = r, !.done = TRUE]
  /\ UNCHANGED <<engineVars, timedVars, clock, raised, query>>

SpecList == InitList /\ [][ListDevices]_vars

----------------------------------------------------------------------------
(* The executions of playSoundCallbackFn_ that have not returned: each     *)
(* awaits its destination (a setSinkId request) or its oscillator.         *)

WakeAcquiring == {n \in DOMAIN sinkQueue : sinkQueue[n].waiter = "wake"}

WakeInFlight == Cardinality(WakeAcquiring) + Cardinality(Unsettled(Cur, "wake"))

(* A fire of the wake job: a tick of its timer, or the trigger of start(). *)
PlayFires ==
  \/ TickPlay
  \/ ClickPlayPause /\ button = "start" /\ ~AlreadyStarted(playJob)

NewTones == DOMAIN tones' \ DOMAIN tones

----------------------------------------------------------------------------
(* C1: at most one execution of the wake job's callback is in flight; an   *)
(* execution begins only in a task that found the job not busy, so a fire  *)
(* that finds it busy neither invokes the callback nor leaves an           *)
(* invocation to be made later; that fire is reported as one               *)
(* OverlappingInvocationError.                                             *)
C1_AtMostOneInFlight ==
  /\ [](WakeInFlight <= 1)
  /\ [][WakeInFlight' > WakeInFlight => ~playJob.isCurrentlyRunning]_vars
  /\ [][(PlayFires /\ playJob.isCurrentlyRunning)
          => (raised' = <<OVERLAP>> /\ WakeInFlight' = WakeInFlight)]_vars

(* A fire was dropped while an execution is in flight. *)
C1_Witness == raised = <<OVERLAP>> /\ WakeInFlight = 1

(* C2: while the engine is stopped (the button holds the start handler)    *)
(* its state is standby and its wake timer is not armed.                   *)
C2_IdleAfterStop ==
  button = "start" => (className = "standby" /\ intervals.play = 0)

(* C3: an oscillator whose signal is aborted is not playing: a listener    *)
(* registered on an aborted signal stops it at once.                       *)
C3_AbortedSignalStopsTone ==
  \A k \in DOMAIN tones :
    (Controller(Cur, k[1]).id = tones[k].sig /\ Controller(Cur, k[1]).aborted)
      => tones[k].st # "playing"

Running == className \in {"playing", "waiting"} /\ AlreadyStarted(playJob)

(* C4: start() on a running engine changes nothing of the engine.          *)
C4_StartWhileRunningNoOp ==
  [][(CallStart /\ Running)
       => UNCHANGED <<className, abortController, tones, playJob, updateJob,
                      intervals>>]_vars

Idle == Mounted /\ className = "standby" /\ ~AlreadyStarted(playJob)

(* C5 as claimed: stop() on an Idle engine leaves the state, the token     *)
(* and both jobs unchanged.                                                *)
C5_StopWhileIdleNoOp ==
  [][(CallStop /\ Idle)
       => UNCHANGED <<className, abortController, playJob, updateJob,
                      intervals>>]_vars

(* C5 as amended: stop() on an Idle engine leaves the state, both jobs,    *)
(* the timers and every oscillator unchanged and mints no token; the       *)
(* current token is cancelled by it if it was not cancelled yet.           *)
C5_StopWhileIdle ==
  [][(CallStop /\ Idle)
       => /\ UNCHANGED <<className, playJob, updateJob, intervals, tones,
                         button>>
          /\ abortController' = [abortController EXCEPT !.aborted = TRUE]]_vars

(* stop() has cancelled the token of an engine that was never started.     *)
C5_Witness == Idle /\ ~audioCtx.created /\ abortController.aborted

(* A fire of job: a tick of its timer, or the trigger of a start() that    *)
(* arms it.                                                                *)
SchedFires == SchedTick \/ (SchedStart /\ ~AlreadyStarted(job))

Slow == duration >= job.delayMsec

(* C6 as claimed: with a callback shorter than the period every fire       *)
(* invokes the callback and raises nothing; a fire that finds the previous *)
(* invocation running raises one OverlappingInvocationError and invokes    *)
(* nothing.                                                                *)
C6_OverlapOnlyWhenSlow ==
  /\ [][(SchedFires /\ ~Slow) => (invoked' /\ raised' = <<>>)]_vars
  /\ [][(SchedFires /\ job.isCurrentlyRunning)
          => (~invoked' /\ raised' = <<OVERLAP>>)]_vars

(* C6 as amended: with a callback shorter than the period every tick of    *)
(* the timer invokes the callback and raises nothing; whatever the         *)
(* duration, a fire that finds the previous invocation running raises one  *)
(* OverlappingInvocationError and invokes nothing, and a fire that finds   *)
(* none running invokes the callback once and raises nothing.  The trigger *)
(* of a start() made while an invocation from before a stop() is running   *)
(* is such a fire, so it overlaps with a short callback too.               *)
C6_TicksOverlapOnlyWhenSlow ==
  /\ [][(SchedTick /\ ~Slow) => (invoked' /\ raised' = <<>>)]_vars
  /\ [][(SchedFires /\ job.isCurrentlyRunning)
          => (~invoked' /\ raised' = <<OVERLAP>> /\ runs' = runs)]_vars
  /\ [][(SchedFires /\ ~job.isCurrentlyRunning)
          => (invoked' /\ raised' = <<>>)]_vars

(* A tick of the timer has just overlapped a slow callback. *)
C6_Witness ==
  /\ Slow
  /\ raised = <<OVERLAP>>
  /\ \E t \in timers : t.armedAt < clock /\ t.at = clock + job.delayMsec

(* The oscillators that a step settles as AbortedError. *)
AbortedNow ==
  {k \in DOMAIN tones \cap DOMAIN tones' :
     tones[k].outcome = "none" /\ tones'[k].outcome = "aborted"}

Triggered(i) == pingCtl'[i] # pingCtl[i]

(* C7: a trigger of ping instance i aborts every oscillator of i that is   *)
(* unsettled, all of them of the burst i started last, and each settles as *)
(* AbortedError; the oscillators it starts are unsettled; and no           *)
(* oscillator is aborted but by a trigger of its own instance.             *)
C7_PingAbortsOwnPreviousBurst ==
  [][/\ \A i \in PingIds :
          Triggered(i) =>
            /\ \A k \in Unsettled(Cur, i) :
                 k[2] = pingCtl[i].id /\ k \in AbortedNow
            /\ \A k \in NewTones :
                 tones'[k].outcome = "none" /\ tones'[k].st = "playing"
     /\ \A k \in AbortedNow : k[1] \in PingIds /\ Triggered(k[1])]_vars

(* Instance i has an aborted burst and an unsettled one while another      *)
(* instance has an unsettled one.                                          *)
C7_Witness ==
  \E i \in PingIds : \E j \in PingIds \ {i} :
    /\ \E k \in DOMAIN tones : k[1] = i /\ tones[k].outcome = "aborted"
    /\ Unsettled(Cur, i) # {}
    /\ Unsettled(Cur, j) # {}

(* C8: an oscillator is started only when no setSinkId request is in       *)
(* flight.                                                                 *)
C8_NoToneDuringRouteChange ==
  [][NewTones # {} => sinkQueue' = <<>>]_vars

(* C9: when getOrCreateAudioContext returns (its caller then starts its    *)
(* oscillators in the same task) the context's sink is the selected one.   *)
C9_RouteMatchesSelection ==
  [][NewTones # {} => areSame(selectedDevice', audioCtx'.sinkId)]_vars

(* A select-device action: the selection changes, the list does not.       *)
Selects == selectedDevice' # selectedDevice /\ deviceOptions' = deviceOptions

(* C10 as claimed: a select-device action issues no route change.          *)
C10_SelectOnlyStores ==
  [][Selects => (sinkQueue' = sinkQueue /\ audioCtx' = audioCtx)]_vars

(* C10 as amended: a select-device action stores the selection and, when   *)
(* the context exists and its sink is not the same as the new selection,   *)
(* issues one setSinkId request for it at once; otherwise it issues none.  *)
(* The sink of the context, and with it the route of the oscillators in    *)
(* flight, is as it was until that request completes.                      *)
C10_SelectReroutesAtOnce ==
  [][Selects =>
       /\ UNCHANGED <<audioCtx, tones, className, playJob, abortController>>
       /\ sinkQueue' =
            IF audioCtx.created /\ ~areSame(selectedDevice', audioCtx.sinkId)
            THEN Append(sinkQueue, [sink |-> SinkArg(selectedDevice'),
                                    waiter |-> "none"])
            ELSE sinkQueue]_vars

(* An oscillator is playing while a route change issued by a selection is  *)
(* in flight.                                                              *)
C10_Witness ==
  /\ \E k \in DOMAIN tones : tones[k].st = "playing"
  /\ \E n \in DOMAIN sinkQueue : sinkQueue[n].waiter = "none"

(* C11: stop() clears the timer and leaves busy and the invocation in      *)
(* flight as they are; while the job is stopped it has no timer and only   *)
(* a start() invokes the callback; an invocation in flight ends only by    *)
(* its own completion, at its own time.                                    *)
C11_StopLeavesInvocation ==
  /\ [][SchedStop =>
          /\ job'.isCurrentlyRunning = job.isCurrentlyRunning
          /\ runs' = runs
          /\ timers' = {}]_vars
  /\ [](job.callbackId = 0 => timers = {})
  /\ [][(job.callbackId = 0 /\ invoked') => job'.callbackId # 0]_vars
  /\ [][(runs \ runs' # {}) =>
          (clock \in runs /\ runs' = runs \ {clock}
             /\ ~job'.isCurrentlyRunning /\ job.isCurrentlyRunning)]_vars
  /\ [](job.isCurrentlyRunning <=> runs # {})

(* The job is stopped while an invocation is in flight. *)
C11_Witness ==
  job.callbackId = 0 /\ job.isCurrentlyRunning /\ runs # {} /\ timers = {}

(* C12: start() on a job that is started arms no timer, triggers nothing   *)
(* and changes neither nextUnixMsec nor busy; the job never has more than  *)
(* one timer.                                                              *)
C12_StartWhileStartedNoOp ==
  /\ [][(SchedStart /\ job.callbackId # 0) =>
          /\ UNCHANGED <<job, timers, runs>>
          /\ ~invoked'
          /\ raised' = <<>>]_vars
  /\ [](Cardinality(timers) <= 1)

(* start() has just been called on the started job: in the instant in     *)
(* which the timer was armed the invocation of the first start() is in     *)
(* flight and the last task invoked and raised nothing.                    *)
C12_Witness ==
  /\ \E t \in timers : t.armedAt = clock /\ t.id = job.callbackId
  /\ job.isCurrentlyRunning
  /\ ~invoked
  /\ raised = <<>>

(* C13: start() on a job that is not started calls callFn_ in the same     *)
(* task, at the time of the call, and the timer it arms ticks at whole     *)
(* periods after that time, none skipped.                                  *)
C13_FiresOnStart ==
  /\ [][(SchedStart /\ job.callbackId = 0) =>
          /\ job'.nextUnixMsec = clock + job.delayMsec
          /\ (invoked' \/ raised' = <<OVERLAP>>)
          /\ \E t \in timers' : /\ t.id = job'.callbackId
                                /\ t.armedAt = clock
                                /\ t.at = clock + job.delayMsec]_vars
  /\ [][SchedTick =>
          /\ (invoked' \/ raised' = <<OVERLAP>>)
          /\ \E t \in timers : \E k \in 1..MaxTime :
               /\ clock = t.armedAt + k * job.delayMsec
               /\ [t EXCEPT !.at = clock + job.delayMsec] \in timers']_vars
  /\ [](\A t \in timers : t.at >= clock /\ t.at <= clock + job.delayMsec)

(* The second tick after a start() has just invoked the callback. *)
C13_Witness ==
  /\ invoked
  /\ \E t \in timers : /\ clock = t.armedAt + 2 * job.delayMsec
                       /\ t.at = clock + job.delayMsec

(* The oscillators of the burst of gain stage g. *)
BurstTones(ts, g) == {k \in DOMAIN ts : k[1] = g[1] /\ k[2] = g[2]}

(* C14: the gain stage of a ping burst is connected as long as one         *)
(* oscillator of the burst is unsettled; the step that disconnects it      *)
(* leaves every oscillator of the burst settled.                           *)
C14_GainReleasedAfterAllSettled ==
  /\ [](\A k \in DOMAIN tones :
          (k[1] \in PingIds /\ tones[k].outcome = "none")
            => <<k[1], k[2]>> \in gains)
  /\ [][\A g \in gains \ gains' :
          \A k \in BurstTones(tones', g) : tones'[k].outcome # "none"]_vars

(* One oscillator of a burst has ended, another is unsettled, and the      *)
(* gain stage of the burst is connected.                                   *)
C14_Witness ==
  \E g \in gains : \E k1, k2 \in BurstTones(tones, g) :
    tones[k1].outcome = "ok" /\ tones[k2].outcome = "none"

(* C15: an oscillator that was aborted is no longer playing, and it is     *)
(* disconnected by the time its promise is rejected with AbortedError.     *)
C15_AbortReleasesBeforeSettling ==
  \A k \in DOMAIN tones :
    tones[k].outcome = "aborted"
      => (tones[k].st # "playing" /\ ~tones[k].connected)

(* A trigger of ping instance i is left waiting for its destination. *)
Suspends(i) ==
  /\ Len(sinkQueue') > Len(sinkQueue)
  /\ sinkQueue'[Len(sinkQueue')].waiter = i

(* C16: a trigger of a ping instance that has to wait for its destination  *)
(* has cancelled the burst of the instance before it waits: every          *)
(* oscillator of the instance that was unsettled is aborted by the task of *)
(* the trigger.                                                            *)
C16_PingAbortsBeforeAcquiring ==
  [][\A i \in PingIds :
       Suspends(i) =>
         \A k \in Unsettled(Cur, i) :
           k \in DOMAIN tones' /\ tones'[k].outcome = "aborted"]_vars

(* A request for a destination: a trigger of a ping instance or a fire of  *)
(* the wake job.                                                           *)
Acquires == ClickPing \/ PlayFires

(* C17: no AudioContext exists before the first request for a destination  *)
(* creates one; only such a request creates one, only when none exists,    *)
(* and no second one is ever made: a request made while an earlier one is  *)
(* suspended on setSinkId finds the context of the earlier one.            *)
C17_OneLazyContext ==
  /\ [](audioCtx.instances <= 1)
  /\ [](audioCtx.created <=> audioCtx.instances = 1)
  /\ [][audioCtx'.instances # audioCtx.instances
          => (Acquires /\ ~audioCtx.created /\ audioCtx'.created)]_vars

(* With the one context made, a trigger is suspended on setSinkId while    *)
(* the oscillators of another trigger play.                                *)
C17_Witness ==
  /\ audioCtx.instances = 1
  /\ \E n \in DOMAIN sinkQueue : sinkQueue[n].waiter \in PingIds
  /\ \E k \in DOMAIN tones : tones[k].st = "playing"

Listed(devs) == STANDARD_DEVICES \cup devs

(* C18: the selection is always Default, Mute or a listed device; a        *)
(* refresh keeps a selection that its list has and replaces one that its   *)
(* list has not by Default, with a warning.                                *)
C18_SelectionIsListed ==
  /\ [](selectedDevice \in Listed(deviceOptions))
  /\ [][RefreshDevices =>
          /\ selectedDevice' = IF selectedDevice \in Listed(deviceOptions')
                               THEN selectedDevice ELSE SINK_DEFAULT
          /\ warned' = (selectedDevice \notin Listed(deviceOptions'))]_vars

(* A refresh has just replaced the selection of a device that is gone,     *)
(* while the context is still routed to that device.                       *)
C18_Witness ==
  /\ warned
  /\ selectedDevice = SINK_DEFAULT
  /\ audioCtx.sinkId \in Devices \ deviceOptions

(* C19: areSame(a, b) holds exactly when a and b are the same string, or   *)
(* both denote the default sink ('', 'default', unset), or both denote no  *)
(* sink ('none', {type: 'none'}).                                          *)
C19_AreSameTable ==
  query.asked =>
    (query.same <=>
       \/ query.a = query.b
       \/ {query.a, query.b} \subseteq {"", "default", "null"}
       \/ {query.a, query.b} \subseteq {"none", "objNone"})

(* areSame has answered yes for the unset sink id and the empty string.    *)
C19_Witness ==
  query.asked /\ query.same /\ query.a = "null" /\ query.b = ""

(* The setSinkId requests that a step issues: a task issues at most one,   *)
(* and none in the task in which a request completes.                      *)
Issued ==
  IF Len(sinkQueue') > Len(sinkQueue) THEN {Len(sinkQueue')} ELSE {}

(* C20: a setSinkId request is issued only for a selection that is not     *)
(* the same as the sink the context has when it is issued, and it asks     *)
(* for that selection.                                                     *)
C20_NoRedundantSetSinkId ==
  [][\A n \in Issued :
       /\ ~areSame(selectedDevice', audioCtx'.sinkId)
       /\ sinkQueue'[n].sink = SinkArg(selectedDevice')]_vars

(* With Mute selected and the context on the {type: 'none'} sink, a tone   *)
(* was started with no request issued.                                     *)
C20_Witness ==
  /\ selectedDevice = SINK_NONE
  /\ audioCtx.sinkId = SINK_OBJ_NONE
  /\ sinkQueue = <<>>
  /\ \E k \in DOMAIN tones : tones[k].st = "playing"

(* C21: the list refreshDevices_ makes holds exactly the enumerated        *)
(* devices of kind audiooutput whose id is not the default one, each once, *)
(* in ascending order of label.                                            *)
C21_OutputsSortedByLabel ==
  listing.done =>
    LET r == listing.newDevices
        d == listing.devices
    IN /\ \A x \in DOMAIN d :
            IsOutput(d[x]) <=>
              \E i \in DOMAIN r : r[i] = [id |-> d[x].deviceId,
                                         label |-> d[x].label]
       /\ \A i \in DOMAIN r :
            \E x \in DOMAIN d : IsOutput(d[x]) /\ r[i].id = d[x].deviceId
       /\ \A i, j \in DOMAIN r : r[i].id = r[j].id => i = j
       /\ \A i, j \in DOMAIN r :
            i < j => Collation(r[i].label) <= Collation(r[j].label)

(* C22: the promise of an oscillator settles once, as success or as        *)
(* AbortedError: an outcome, once there, never changes, neither by a       *)
(* cancellation after the natural end nor by the ended event after an      *)
(* abort; an unsettled oscillator that ends settles as success, and one    *)
(* that a step aborts is stopped by that step.                             *)
C22_SettlesOnce ==
  /\ [](\A k \in DOMAIN tones : tones[k].outcome \in {"none", "ok", "aborted"})
  /\ [][\A k \in DOMAIN tones :
          /\ k \in DOMAIN tones'
          /\ tones[k].outcome # "none" => tones'[k].outcome = tones[k].outcome
          /\ (tones[k].outcome = "none" /\ tones'[k].st = "ended")
               => tones'[k].outcome = "ok"
          /\ k \in AbortedNow
               => (tones[k].st = "playing" /\ tones'[k].st = "stopping")]_vars

(* Of one burst whose token was cancelled, an oscillator that had ended    *)
(* before is a success, and another that was aborted has ended since and   *)
(* is still an AbortedError.                                               *)
C22_Witness ==
  \E k1, k2 \in DOMAIN tones :
    /\ k1[1] = k2[1] /\ k1[2] = k2[2]
    /\ Controller(Cur, k1[1]).id # tones[k1].sig
    /\ tones[k1].outcome = "ok"
    /\ tones[k2].outcome = "aborted" /\ tones[k2].st = "ended"

(* The acquisition of the destination of the wake callback fails. *)
WakeFails == SetSinkIdRejected /\ Head(sinkQueue).waiter = "wake"

(* C23: when the acquisition of the wake callback fails, the task reports  *)
(* that one error, busy is cleared, the timer and the job stay armed as    *)
(* they were, no oscillator is started and no invocation is left in        *)
(* flight; an invocation begins only in a fire; and a tick that finds the  *)
(* job not busy invokes the callback: busy is set, the state is playing,   *)
(* one invocation is in flight and nothing is raised.                      *)
C23_FailureNotRetried ==
  /\ [][WakeFails =>
          /\ raised' = <<"Error">>
          /\ playJob.isCurrentlyRunning /\ ~playJob'.isCurrentlyRunning
          /\ playJob'.callbackId = playJob.callbackId
          /\ intervals' = intervals
          /\ NewTones = {}
          /\ WakeInFlight' = 0]_vars
  /\ [][WakeInFlight' > WakeInFlight => PlayFires]_vars
  /\ [][(TickPlay /\ ~playJob.isCurrentlyRunning) =>
          /\ playJob'.isCurrentlyRunning
          /\ className' = "playing"
          /\ WakeInFlight = 0 /\ WakeInFlight' = 1
          /\ raised' = <<>>]_vars

(* The acquisition has just failed: the error is reported, the job is      *)
(* armed and not busy, and no wake oscillator exists.                      *)
C23_Witness ==
  /\ raised = <<"Error">>
  /\ className = "playing"
  /\ ~playJob.isCurrentlyRunning
  /\ AlreadyStarted(playJob) /\ intervals.play = 1
  /\ WakeKeys(Cur) = {}
  /\ sinkQueue = <<>>

(* C24: the task that aborts a wake oscillator in flight ends the          *)
(* invocation of the callback with no error raised and without entering    *)
(* waiting: busy is cleared and no invocation is left in flight; the state *)
(* becomes waiting only in the task in which a wake oscillator ends        *)
(* unaborted; and an error of the acquisition is raised.                   *)
C24_AbortSwallowed ==
  /\ [][(\E k \in AbortedNow : k[1] = "wake") =>
          /\ raised' = <<>>
          /\ className' # "waiting"
          /\ playJob.isCurrentlyRunning /\ ~playJob'.isCurrentlyRunning
          /\ WakeInFlight' = 0]_vars
  /\ [][(className' = "waiting" /\ className # "waiting") =>
          \E k \in Unsettled(Cur, "wake") : k \notin AbortedNow]_vars
  /\ [][WakeFails => raised' = <<"Error">>]_vars

(* A wake oscillator was aborted in flight and has not ended yet: the      *)
(* callback has returned, nothing was raised and the state is not waiting. *)
C24_Witness ==
  /\ \E k \in WakeKeys(Cur) :
       tones[k].outcome = "aborted" /\ tones[k].st = "stopping"
  /\ ~playJob.isCurrentlyRunning
  /\ className # "waiting"
  /\ raised = <<>>

(* A wake oscillator ends at its stop time, unaborted. *)
NaturalEnd ==
  /\ WakeToneEnd
  /\ \E k \in Unsettled(Cur, "wake") :
       k \notin DOMAIN tones' \/ tones'[k].outcome = "ok"

(* C25: the natural end of a wake tone takes the running engine from       *)
(* playing to waiting; the next fire time shown then is the time at which  *)
(* the timer ticks next, which with a tone shorter than the period is one  *)
(* period after the start of the fire that played the tone; the tone ends  *)
(* its duration after that start; and the tick at that time, finding the   *)
(* job not busy, starts the next tone and shows playing.                   *)
C25_WaitingUntilNextPeriod ==
  /\ [][NaturalEnd =>
          /\ className = "playing" /\ className' = "waiting"
          /\ AlreadyStarted(playJob)
          /\ playJob' = Finally(playJob)
          /\ UNCHANGED timers
          /\ \E t \in timers :
               /\ t.at = playJob.nextUnixMsec
               /\ t.at >= clock
               /\ \E n \in 1..(MaxTime + 1) :
                    t.at = t.armedAt + n * playJob.delayMsec
               /\ duration < playJob.delayMsec
                    => t.at = (clock - duration) + playJob.delayMsec]_vars
  /\ [][Playing(tones') \ Playing(tones) # {} =>
          /\ runs' = {clock + duration}
          /\ playJob'.nextUnixMsec = clock + playJob.delayMsec
          /\ className' = "playing"]_vars
  /\ [](className = "waiting" =>
          \E t \in timers : t.at = playJob.nextUnixMsec /\ t.at >= clock)
  /\ [][(WakeTick /\ className = "waiting") =>
          /\ clock = playJob.nextUnixMsec
          /\ className' = "playing"
          /\ Playing(tones') # {}
          /\ raised' = <<>>]_vars

(* The engine was started at 0 with a tone shorter than the period; the    *)
(* tone has ended, the engine has waited, and the tick one period after    *)
(* the start has just started the second tone.                             *)
C25_Witness ==
  /\ className = "playing"
  /\ duration < playJob.delayMsec
  /\ clock = playJob.delayMsec
  /\ playJob.nextUnixMsec = 2 * playJob.delayMsec
  /\ timers = {[id |-> 1, armedAt |-> 0, at |-> 2 * playJob.delayMsec]}
  /\ Playing(tones) # {}
  /\ runs = {clock + duration}

(* The trigger of instance i that waited longest gets its destination and  *)
(* starts its burst.                                                       *)
Resumes(i) ==
  /\ SetSinkIdResolved
  /\ Head(sinkQueue).waiter = i
  /\ Triggered(i)

(* C26: of two triggers of a ping instance the later one is the last to    *)
(* start its burst: a trigger that a later trigger of its instance has     *)
(* overtaken while it waited for its destination does not start a burst    *)
(* after it, and so cancels no burst of a later trigger.                   *)
C26_LaterTriggerWins ==
  [][\A i \in PingIds : Resumes(i) => 1 \notin passed]_vars

(* C27: at most one wake oscillator is unsettled; a wake oscillator is     *)
(* started only by a task that found none unsettled and the job busy with  *)
(* the invocation that starts it, one at a time; and while one is          *)
(* unsettled the job is busy, so every fire is refused.                    *)
C27_OneWakeToneInFlight ==
  /\ [](Cardinality(Unsettled(Cur, "wake")) <= 1)
  /\ [](Unsettled(Cur, "wake") # {} => playJob.isCurrentlyRunning)
  /\ [][NewTones # {} =>
          /\ Unsettled(Cur, "wake") = {}
          /\ Cardinality(NewTones) = 1
          /\ playJob'.isCurrentlyRunning]_vars

(* The oscillator of a start() plays, unsettled, next to the oscillator of *)
(* an earlier start() that was stopped and has not ended yet, and a fire   *)
(* was just refused.                                                       *)
C27_Witness ==
  /\ \E k1, k2 \in WakeKeys(Cur) :
       /\ tones[k1].outcome = "none" /\ tones[k1].st = "playing"
       /\ tones[k2].outcome = "aborted" /\ tones[k2].st = "stopping"
  /\ raised = <<OVERLAP>>

Armed(j, n) == AlreadyStarted(j) /\ n = 1

(* C28: the wake job and the status job are both armed, each with its one  *)
(* timer, or both disarmed with none, and they are armed exactly while the *)
(* button holds the stop handler.                                          *)
C28_JobsArmedTogether ==
  /\ \/ Armed(playJob, intervals.play) /\ Armed(updateJob, intervals.update)
     \/ /\ ~AlreadyStarted(playJob) /\ intervals.play = 0
        /\ ~AlreadyStarted(updateJob) /\ intervals.update = 0
  /\ Armed(playJob, intervals.play) <=> button = "stop"

(* start() was called while the invocation from before the stop() still    *)
(* waits for its destination: its first call of the callback was refused,  *)
(* and both jobs are armed.                                                *)
C28_Witness ==
  /\ raised = <<OVERLAP>>
  /\ WakeAcquiring # {}
  /\ Armed(playJob, intervals.play) /\ Armed(updateJob, intervals.update)
  /\ ~abortController.aborted
  /\ WakeKeys(Cur) = {}

(* C29: an invocation of the wake callback completes: whenever the job is  *)
(* busy it is later not busy, and whenever an invocation is in flight      *)
(* (waiting for its destination or for its oscillator) none is later.      *)
C29_BusyEventuallyCleared ==
  /\ playJob.isCurrentlyRunning ~> ~playJob.isCurrentlyRunning
  /\ (WakeInFlight > 0) ~> (WakeInFlight = 0)

(* The job is busy with an oscillator that was started on a token already  *)
(* cancelled: no stop() or start() can abort it, only its end completes    *)
(* the invocation.                                                         *)
C29_Witness ==
  /\ playJob.isCurrentlyRunning
  /\ \E k \in Unsettled(Cur, "wake") :
       tones[k].sig # abortController.id \/ abortController.aborted

====
